---- MODULE Spec2Model ----
(***************************************************************************)
(* A model of common/include/Utilities/Dependencies.h (PCSX2).             *)
(*                                                                         *)
(* The header holds three independent pieces, each modelled as its own     *)
(* state machine over its own variables:                                   *)
(*   Spec      ScopedBool: the declared constructor and destructor acting  *)
(*             on caller-owned booleans (SpecCopy adds the copy operations *)
(*             the class leaves implicitly declared);                      *)
(*   SpecEnum  the operators ImplementEnumOperators generates for one      *)
(*             conforming enumeration;                                     *)
(*   SpecUnit  one translation unit including the header: the conditional  *)
(*             #define cascade of lines 26-40, then the static             *)
(*             initialisation of the size constants of lines 236-251.      *)
(***************************************************************************)
EXTENDS Integers, Sequences, FiniteSets, TLC

VARIABLES
    mem,        \* ScopedBool: the caller-owned booleans, by address
    guard,      \* ScopedBool: every guard object: its lifetime and m_boolme
    since,      \* ScopedBool: per boolean, what happened since the last constructor (ghost)
    lastExit,   \* ScopedBool: the path by which the last scope was left (ghost)
    decl,       \* enum: the enumeration's FIRST and COUNT enumerators
    src,        \* enum: the enumeration variable the operators act on
    ret,        \* enum: what the last ++ or -- returned
    valid,      \* enum: what the last EnumIsValid returned
    last,       \* enum: the last operator call and its argument (ghost)
    pc,         \* enum: "free", or the position of the iteration loop
    visited,    \* enum: the values the loop body has seen, in order
    flags,      \* unit: the macros predefined on the command line
    ptrBits,    \* unit: width of sptr on the target (32 or 64)
    line,       \* unit: the next line of the header to process
    taking,     \* unit: whether the current conditional group is compiled
    macros,     \* unit: the preprocessor's macro table
    consts      \* unit: the initialised size constants

guardVars == <<mem, guard, since, lastExit>>
enumVars == <<decl, src, ret, valid, last, pc, visited>>
unitVars == <<flags, ptrBits, line, taking, macros, consts>>
vars == <<mem, guard, since, lastExit, decl, src, ret, valid, last, pc, visited,
          flags, ptrBits, line, taking, macros, consts>>

(***************************************************************************)
(* Bounds of the model.                                                    *)
(***************************************************************************)
MaxGuards == 3
MaxFirst == 1
MaxMembers == 3
Slack == 2

(***************************************************************************)
(*                              ScopedBool                                 *)
(***************************************************************************)
\* Two caller-owned booleans: V, and a second one, U, next to it.
Addr == {"V", "U"}
NoAddr == "null"
Guard == 1..MaxGuards
Caller == MaxGuards + 1
ExitPath == {"normal", "return", "exception"}

\* A guard object.  st and m_boolme are the object; the other fields are
\* history kept for stating properties and are never read by the operations:
\*   how      the constructor that made it ("ctor" is ScopedBool(bool&))
\*   target   the boolean it was constructed on
\*   prior    what that boolean held just before the construction
\*   writers  who else has stored to target since its construction
\*   dtors    the guards destroyed, on target, during its lifetime
NoGuard ==
    [st |-> "unborn", m_boolme |-> NoAddr, how |-> "none", target |-> NoAddr,
     prior |-> FALSE, writers |-> {}, dtors |-> {}]

\* ScopedBool(bool &boolme): boolme = true.
\* (CtorSkipsStore: a faulty variant that forgets the store.)
CtorSkipsStore(m, a) == m
Ctor(m, a) == [m EXCEPT ![a] = TRUE]

\* ~ScopedBool(): *m_boolme = false.
\* (Faulty variants: no store, a store of true, a store to every boolean.)
DtorSkipsStore(m, a) == m
DtorStoresTrue(m, a) == [m EXCEPT ![a] = TRUE]
DtorClearsAll(m, a) == [b \in Addr |-> FALSE]
Dtor(m, a) == [m EXCEPT ![a] = FALSE]

Live(g) == guard[g].st = "live"
Dead(g) == guard[g].st = "dead"
LiveGuards == {g \in Guard : Live(g)}
\* Objects are numbered in the order they come into existence.
NextGuard == Cardinality({g \in Guard : guard[g].st # "unborn"}) + 1

NewGuard(how, a) ==
    [st |-> "live", m_boolme |-> a, how |-> how, target |-> a,
     prior |-> mem[a], writers |-> {}, dtors |-> {}]

\* History: w stored to the boolean at a; died says the store was w's destructor.
Noted(w, a, died) ==
    [g \in Guard |->
        IF g # w /\ guard[g].st # "unborn" /\ guard[g].target = a
        THEN [guard[g] EXCEPT
                 !.writers = @ \cup {w},
                 !.dtors = IF died /\ Live(g) THEN @ \cup {w} ELSE @]
        ELSE guard[g]]

\* History per boolean: what has happened to it since the last
\* ScopedBool(bool&) on it.
Fresh == [dtor |-> FALSE, wrote |-> FALSE]

GuardIdle ==
    /\ mem = [a \in Addr |-> FALSE]
    /\ guard = [g \in Guard |-> NoGuard]
    /\ since = [a \in Addr |-> Fresh]
    /\ lastExit = "none"

GuardInit ==
    /\ mem \in [Addr -> BOOLEAN]
    /\ guard = [g \in Guard |-> NoGuard]
    /\ since = [a \in Addr |-> Fresh]
    /\ lastExit = "none"

\* A guard is constructed on the boolean at address a.
Construct(a) ==
    /\ NextGuard \in Guard
    /\ mem' = Ctor(mem, a)
    /\ guard' = [Noted(NextGuard, a, FALSE) EXCEPT ![NextGuard] = NewGuard("ctor", a)]
    /\ since' = [since EXCEPT ![a] = Fresh]
    /\ UNCHANGED <<lastExit, enumVars, unitVars>>

\* The scope (or storage) holding guard g ends by the given path; whatever
\* the path, the destructor runs.
ExitScope(g, path) ==
    /\ Live(g)
    /\ mem' = Dtor(mem, guard[g].m_boolme)
    /\ guard' = [Noted(g, guard[g].m_boolme, TRUE) EXCEPT
                    ![g].st = "dead", ![g].m_boolme = NoAddr]
    /\ since' = [since EXCEPT ![guard[g].m_boolme].dtor = TRUE]
    /\ lastExit' = path
    /\ UNCHANGED <<enumVars, unitVars>>

\* The owner of a boolean stores to it.
CallerWrite(a, v) ==
    /\ mem' = [mem EXCEPT ![a] = v]
    /\ guard' = Noted(Caller, a, FALSE)
    /\ since' = [since EXCEPT ![a].wrote = TRUE]
    /\ UNCHANGED <<lastExit, enumVars, unitVars>>

\* The implicitly-declared copy constructor: the class declares none and does
\* not use DeclareNoncopyableObject, so ScopedBool b(a) copies m_boolme.
CopyConstruct(from) ==
    /\ NextGuard \in Guard
    /\ Live(from)
    /\ guard' = [guard EXCEPT ![NextGuard] = NewGuard("copy", guard[from].m_boolme)]
    /\ UNCHANGED <<mem, since, lastExit, enumVars, unitVars>>

\* The implicitly-declared copy assignment: a = b copies m_boolme.
CopyAssign(to, from) ==
    /\ Live(to) /\ Live(from)
    /\ guard[to].m_boolme # guard[from].m_boolme
    /\ guard' = [guard EXCEPT ![to].m_boolme = guard[from].m_boolme]
    /\ UNCHANGED <<mem, since, lastExit, enumVars, unitVars>>

(***************************************************************************)
(*                        ImplementEnumOperators                           *)
(***************************************************************************)
\* A conforming enumeration: sequential members from _FIRST, then _COUNT.
EnumDecls ==
    {[FIRST |-> f, COUNT |-> c] : f \in 0..MaxFirst, c \in 0..(MaxFirst + MaxMembers)}

Conforming == {d \in EnumDecls : d.FIRST <= d.COUNT /\ d.COUNT - d.FIRST <= MaxMembers}

\* The integer values the model lets the enumeration variable take: the
\* operators themselves have no bound, the model stops Slack past either end.
Window == (decl.FIRST - Slack)..(decl.COUNT + Slack)

\* (enumName)((int)src + 1) and (enumName)((int)src - 1)
StepUp(v) == v + 1
StepDown(v) == v - 1

\* operator== against pxEnumEnd
\* (EqEndOffByOne: a faulty variant comparing against the last member.)
EqEndOffByOne(left) == left = decl.COUNT - 1
OpEqEnd(left) == left = decl.COUNT

\* EnumIsValid
\* (ValidUpToCount: a faulty variant that accepts the sentinel.)
ValidUpToCount(id) == (id >= decl.FIRST) /\ (id <= decl.COUNT)
EnumIsValid(id) == (id >= decl.FIRST) /\ (id < decl.COUNT)

Call(op) == [op |-> op, arg |-> src]

EnumIdle ==
    /\ decl = [FIRST |-> 0, COUNT |-> 0]
    /\ src = 0
    /\ ret = 0
    /\ valid = FALSE
    /\ last = [op |-> "none", arg |-> 0]
    /\ pc = "free"
    /\ visited = <<>>

EnumInit ==
    /\ decl \in Conforming
    /\ src \in Window
    /\ ret = src
    /\ valid = FALSE
    /\ last = [op |-> "none", arg |-> src]
    /\ pc = "free"
    /\ visited = <<>>

\* enumName &operator++(enumName &src)
PreIncrement ==
    /\ pc = "free"
    /\ StepUp(src) \in Window
    /\ src' = StepUp(src)
    /\ ret' = src'
    /\ last' = Call("++pre")
    /\ UNCHANGED <<decl, valid, pc, visited, guardVars, unitVars>>

\* enumName &operator--(enumName &src)
PreDecrement ==
    /\ pc = "free"
    /\ StepDown(src) \in Window
    /\ src' = StepDown(src)
    /\ ret' = src'
    /\ last' = Call("--pre")
    /\ UNCHANGED <<decl, valid, pc, visited, guardVars, unitVars>>

\* enumName operator++(enumName &src, int)
\* (PostIncrementReturnsNew: a faulty variant returning the stepped value.)
PostIncrementReturnsNew ==
    /\ pc = "free"
    /\ StepUp(src) \in Window
    /\ src' = StepUp(src)
    /\ ret' = src'
    /\ last' = Call("post++")
    /\ UNCHANGED <<decl, valid, pc, visited, guardVars, unitVars>>

PostIncrement ==
    /\ pc = "free"
    /\ StepUp(src) \in Window
    /\ LET orig == src
       IN  /\ src' = StepUp(src)
           /\ ret' = orig
    /\ last' = Call("post++")
    /\ UNCHANGED <<decl, valid, pc, visited, guardVars, unitVars>>

\* enumName operator--(enumName &src, int)
PostDecrement ==
    /\ pc = "free"
    /\ StepDown(src) \in Window
    /\ LET orig == src
       IN  /\ src' = StepDown(src)
           /\ ret' = orig
    /\ last' = Call("post--")
    /\ UNCHANGED <<decl, valid, pc, visited, guardVars, unitVars>>

\* bool EnumIsValid(enumName id), called on the variable
CallEnumIsValid ==
    /\ pc = "free"
    /\ valid' = EnumIsValid(src)
    /\ last' = Call("EnumIsValid")
    /\ UNCHANGED <<decl, src, ret, pc, visited, guardVars, unitVars>>

\* for (e = E_FIRST; !(e == pxEnumEnd); ++e) body(e);
LoopStart ==
    /\ pc = "free"
    /\ src' = decl.FIRST
    /\ visited' = <<>>
    /\ pc' = "loop"
    /\ last' = [op |-> "loop", arg |-> decl.FIRST]
    /\ UNCHANGED <<decl, ret, valid, guardVars, unitVars>>

LoopStep ==
    /\ pc = "loop"
    /\ ~OpEqEnd(src)
    /\ StepUp(src) \in Window
    /\ visited' = Append(visited, src)
    /\ src' = StepUp(src)
    /\ ret' = src'
    /\ UNCHANGED <<decl, valid, last, pc, guardVars, unitVars>>

LoopExit ==
    /\ pc = "loop"
    /\ OpEqEnd(src)
    /\ pc' = "done"
    /\ UNCHANGED <<decl, src, ret, valid, last, visited, guardVars, unitVars>>

(***************************************************************************)
(*            The translation unit: #define cascade, size constants        *)
(***************************************************************************)
\* Lines 26-40, one directive per line.
Directive(d, cond, name, fn, body) ==
    [d |-> d, cond |-> cond, name |-> name, fn |-> fn, body |-> body]

Define(name, fn, body) == Directive("define", {}, name, fn, body)
Other(d, cond) == Directive(d, cond, "", FALSE, "")

PPLine(l) ==
    CASE l = 26 -> Other("if", {"PCSX2_DEBUG"})
      [] l = 27 -> Define("tryDEBUG", FALSE, "try")
      [] l = 28 -> Define("catchDEBUG", TRUE, "catch (clause)")
      [] l = 29 -> Other("else", {})
      [] l = 30 -> Define("tryDEBUG", FALSE, "if (true)")
      [] l = 31 -> Define("catchDEBUG", TRUE, "if (false)")
      [] l = 32 -> Other("endif", {})
      [] l = 33 -> Other("blank", {})
      [] l = 34 -> Other("if", {"PCSX2_DEVBUILD", "PCSX2_DEBUG"})
      [] l = 35 -> Define("tryDEVEL", FALSE, "try")
      [] l = 36 -> Define("catchDEVEL", FALSE, "catch (clause)")
      [] l = 37 -> Other("else", {})
      [] l = 38 -> Define("tryDEBUG", FALSE, "if (true)")
      [] l = 39 -> Define("catchDEBUG", TRUE, "if (false)")
      [] l = 40 -> Other("endif", {})

PPLines == 26..40
BuildFlags == {"PCSX2_DEBUG", "PCSX2_DEVBUILD"}
MacroNames == {"tryDEBUG", "catchDEBUG", "tryDEVEL", "catchDEVEL"}
Undefined == [def |-> FALSE, fn |-> FALSE, body |-> ""]

\* The preprocessor handles the directive on the current line.
Preprocess ==
    /\ line \in PPLines
    /\ LET d == PPLine(line)
       IN  /\ taking' = CASE d.d = "if" -> (d.cond \cap flags # {})
                          [] d.d = "else" -> ~taking
                          [] d.d = "endif" -> TRUE
                          [] OTHER -> taking
           /\ macros' = IF d.d = "define" /\ taking
                        THEN [macros EXCEPT ![d.name] =
                                 [def |-> TRUE, fn |-> d.fn, body |-> d.body]]
                        ELSE macros
    /\ line' = line + 1
    /\ UNCHANGED <<flags, ptrBits, consts, guardVars, enumVars>>

\* What   try<F> { body } catch<F>(clause) { handler }   becomes once expanded.
\* A name that is no macro stays an identifier; an object-like macro leaves
\* the parenthesised argument behind its replacement text.
UseTry(f) ==
    LET name == "try" \o f
        m == macros[name]
    IN  IF m.def /\ ~m.fn THEN m.body ELSE name

UseCatch(f) ==
    LET name == "catch" \o f
        m == macros[name]
    IN  IF ~m.def THEN name \o "(clause)"
        ELSE IF m.fn THEN m.body
        ELSE m.body \o "(clause)"

Resolve(f) ==
    CASE UseTry(f) = "try" /\ UseCatch(f) = "catch (clause)" -> "try/catch"
      [] UseTry(f) = "if (true)" /\ UseCatch(f) = "if (false)" -> "straight-line"
      [] OTHER -> "ill-formed"

\* 64-bit two's complement values as four 16-bit limbs, least significant first.
Radix == 256 * 256
FromInt(n) == <<n % Radix, n \div Radix, 0, 0>>

\* x * n modulo 2^64, for a small non-negative n.
MulSmall(x, n) ==
    LET p1 == x[1] * n
        p2 == x[2] * n + (p1 \div Radix)
        p3 == x[3] * n + (p2 \div Radix)
        p4 == x[4] * n + (p3 \div Radix)
    IN  <<p1 % Radix, p2 % Radix, p3 % Radix, p4 % Radix>>

\* x + y modulo 2^64.
Add(x, y) ==
    LET s1 == x[1] + y[1]
        s2 == x[2] + y[2] + (s1 \div Radix)
        s3 == x[3] + y[3] + (s2 \div Radix)
        s4 == x[4] + y[4] + (s3 \div Radix)
    IN  <<s1 % Radix, s2 % Radix, s3 % Radix, s4 % Radix>>

\* The value kept by a signed integer of the given width.
Wrap(x, bits) ==
    IF bits = 64 THEN x
    ELSE IF x[2] >= Radix \div 2 THEN <<x[1], x[2], Radix - 1, Radix - 1>>
    ELSE <<x[1], x[2], 0, 0>>

\* Lines 236-251: static const <type> <name> = <lhs> * <rhs>;
SizeDecl(type, name, lhs, rhs) ==
    [type |-> type, name |-> name, lhs |-> lhs, rhs |-> rhs]

\* (AllPointerSized: a faulty variant declaring every constant as sptr.)
AllPointerSized(l) ==
    CASE l = 236 -> SizeDecl("sptr", "_1kb", "1024", 1)
      [] l = 237 -> SizeDecl("sptr", "_4kb", "_1kb", 4)
      [] l = 238 -> SizeDecl("sptr", "_16kb", "_1kb", 16)
      [] l = 239 -> SizeDecl("sptr", "_32kb", "_1kb", 32)
      [] l = 240 -> SizeDecl("sptr", "_64kb", "_1kb", 64)
      [] l = 241 -> SizeDecl("sptr", "_128kb", "_1kb", 128)
      [] l = 242 -> SizeDecl("sptr", "_256kb", "_1kb", 256)
      [] l = 243 -> SizeDecl("", "", "", 0)
      [] l = 244 -> SizeDecl("sptr", "_1mb", "1024", 1024)
      [] l = 245 -> SizeDecl("sptr", "_8mb", "_1mb", 8)
      [] l = 246 -> SizeDecl("sptr", "_16mb", "_1mb", 16)
      [] l = 247 -> SizeDecl("sptr", "_32mb", "_1mb", 32)
      [] l = 248 -> SizeDecl("sptr", "_64mb", "_1mb", 64)
      [] l = 249 -> SizeDecl("sptr", "_256mb", "_1mb", 256)
      [] l = 250 -> SizeDecl("sptr", "_1gb", "_1mb", 1024)
      [] l = 251 -> SizeDecl("sptr", "_4gb", "_1gb", 4)

SizeLine(l) ==
    CASE l = 236 -> SizeDecl("sptr", "_1kb", "1024", 1)
      [] l = 237 -> SizeDecl("sptr", "_4kb", "_1kb", 4)
      [] l = 238 -> SizeDecl("sptr", "_16kb", "_1kb", 16)
      [] l = 239 -> SizeDecl("sptr", "_32kb", "_1kb", 32)
      [] l = 240 -> SizeDecl("sptr", "_64kb", "_1kb", 64)
      [] l = 241 -> SizeDecl("sptr", "_128kb", "_1kb", 128)
      [] l = 242 -> SizeDecl("sptr", "_256kb", "_1kb", 256)
      [] l = 243 -> SizeDecl("", "", "", 0)
      [] l = 244 -> SizeDecl("s64", "_1mb", "1024", 1024)
      [] l = 245 -> SizeDecl("s64", "_8mb", "_1mb", 8)
      [] l = 246 -> SizeDecl("s64", "_16mb", "_1mb", 16)
      [] l = 247 -> SizeDecl("s64", "_32mb", "_1mb", 32)
      [] l = 248 -> SizeDecl("s64", "_64mb", "_1mb", 64)
      [] l = 249 -> SizeDecl("s64", "_256mb", "_1mb", 256)
      [] l = 250 -> SizeDecl("s64", "_1gb", "_1mb", 1024)
      [] l = 251 -> SizeDecl("s64", "_4gb", "_1gb", 4)

SizeLines == 236..251
SizeNames == {SizeLine(l).name : l \in SizeLines} \ {""}
Unset == <<>>

\* Width of a type: int is 32 bits, sptr follows the pointer, s64 is 64 bits.
Bits(type) == CASE type = "int" -> 32 [] type = "sptr" -> ptrBits [] type = "s64" -> 64

\* The initialiser is evaluated in int when both operands are literals, and
\* otherwise in the type of the named constant; the result is then converted
\* to the declared type.
InitValue(d) ==
    LET l == IF d.lhs = "1024" THEN FromInt(1024) ELSE consts[d.lhs]
        arith == IF d.lhs = "1024" THEN "int" ELSE d.type
    IN  Wrap(Wrap(MulSmall(l, d.rhs), Bits(arith)), Bits(d.type))

\* Static initialisation of the constant declared on the current line.
StaticInit ==
    /\ line \in SizeLines
    /\ LET d == SizeLine(line)
       IN  consts' = IF d.name = "" THEN consts
                     ELSE [consts EXCEPT ![d.name] = InitValue(d)]
    /\ line' = line + 1
    /\ UNCHANGED <<flags, ptrBits, taking, macros, guardVars, enumVars>>

\* Lines 41-235 define nothing the model follows.
SkipLines ==
    /\ line = 41
    /\ line' = 236
    /\ UNCHANGED <<flags, ptrBits, taking, macros, consts, guardVars, enumVars>>

UnitIdle ==
    /\ flags = {}
    /\ ptrBits = 64
    /\ line = 26
    /\ taking = TRUE
    /\ macros = [n \in MacroNames |-> Undefined]
    /\ consts = [n \in SizeNames |-> Unset]

UnitInit ==
    /\ flags \in SUBSET BuildFlags
    /\ ptrBits \in {32, 64}
    /\ line = 26
    /\ taking = TRUE
    /\ macros = [n \in MacroNames |-> Undefined]
    /\ consts = [n \in SizeNames |-> Unset]

(***************************************************************************)
(*                            Specifications                               *)
(***************************************************************************)
GuardNext ==
    \/ \E a \in Addr : Construct(a)
    \/ \E g \in Guard, path \in ExitPath : ExitScope(g, path)
    \/ \E a \in Addr, v \in BOOLEAN : CallerWrite(a, v)

CopyNext ==
    \/ \E a \in Addr : Construct(a)
    \/ \E g \in Guard, path \in ExitPath : ExitScope(g, path)
    \/ \E a \in Addr, v \in BOOLEAN : CallerWrite(a, v)
    \/ \E from \in Guard : CopyConstruct(from)
    \/ \E to \in Guard, from \in Guard : CopyAssign(to, from)

EnumNext ==
    \/ PreIncrement
    \/ PreDecrement
    \/ PostIncrement
    \/ PostDecrement
    \/ CallEnumIsValid
    \/ LoopStart
    \/ LoopStep
    \/ LoopExit

UnitNext ==
    \/ Preprocess
    \/ SkipLines
    \/ StaticInit

Next == GuardNext

Init == GuardInit /\ EnumIdle /\ UnitIdle
InitEnum == GuardIdle /\ EnumInit /\ UnitIdle
InitUnit == GuardIdle /\ EnumIdle /\ UnitInit

Spec == Init /\ [][Next]_vars
SpecCopy == Init /\ [][CopyNext]_vars
SpecEnum == InitEnum /\ [][EnumNext]_vars
SpecEnumFair == InitEnum /\ [][EnumNext]_vars /\ WF_vars(LoopStep) /\ WF_vars(LoopExit)
SpecUnit == InitUnit /\ [][UnitNext]_vars

(***************************************************************************)
(*                        Properties of ScopedBool                         *)
(***************************************************************************)
Born(g) == guard[g].st # "unborn"
Constructed(g) == guard[g].st = "unborn" /\ guard'[g].st = "live"
Destroyed(g) == guard[g].st = "live" /\ guard'[g].st = "dead"

\* C1: a guard constructed on a boolean V, whatever V held, leaves V true
\* right after its construction, and V is false right after the guard's scope
\* is left, by whichever path (normal, return, exception).
ScopedBoolSetsThenClears ==
    [][\A g \in Guard :
          /\ Constructed(g) /\ guard'[g].how = "ctor"
                => mem'[guard'[g].target] = TRUE
          /\ Destroyed(g)
                => lastExit' \in ExitPath /\ mem'[guard[g].target] = FALSE]_vars

\* An exception left the scope of a guard on a boolean nobody else stored to.
ClearedOnException ==
    /\ lastExit = "exception"
    /\ \E g \in Guard :
          /\ Dead(g)
          /\ guard[g].prior = FALSE
          /\ guard[g].writers = {}
          /\ mem[guard[g].target] = FALSE

\* g2 was constructed on g1's boolean during g1's lifetime and does not
\* outlive g1, and nobody but the two has stored to the boolean since g1 was
\* constructed.
NestedAlone(g1, g2) ==
    /\ g1 < g2
    /\ guard[g1].how = "ctor" /\ guard[g2].how = "ctor"
    /\ guard[g1].target = guard[g2].target
    /\ Live(g1) \/ g1 \in guard[g2].writers
    /\ Dead(g1) => g2 \in guard[g1].dtors
    /\ guard[g1].writers \subseteq {g2}

\* C2: for properly nested guards g1 (outer) and g2 (inner) on one boolean V
\* with no other writer, V is true while both are live, false once g2 is
\* destroyed and g1 still live, and false once g1 is destroyed.
NestedGuards ==
    \A g1 \in Guard, g2 \in Guard :
        NestedAlone(g1, g2) =>
            /\ Live(g1) /\ Live(g2) => mem[guard[g1].target] = TRUE
            /\ Live(g1) /\ Dead(g2) => mem[guard[g1].target] = FALSE
            /\ Dead(g1) /\ Dead(g2) => mem[guard[g1].target] = FALSE

\* The inner guard is gone, the outer one still live, its flag already false.
InnerGoneOuterLive ==
    \E g1 \in Guard, g2 \in Guard :
        /\ NestedAlone(g1, g2)
        /\ Live(g1) /\ Dead(g2)
        /\ mem[guard[g1].target] = FALSE

\* Only guards have stored to g's boolean since g was constructed.
GuardsOnly(g) == Caller \notin guard[g].writers

\* C3 as stated: for every live guard g, V is true iff no guard on V that was
\* constructed before g has completed its destruction after g's construction.
TrueUnlessEarlierDestroyed ==
    \A g \in Guard :
        Live(g) /\ GuardsOnly(g) =>
            (mem[guard[g].m_boolme] = TRUE
                <=> ~(\E h \in guard[g].dtors : h < g))

\* C3 as amended: for every live guard g, V is true iff no guard on V,
\* constructed before or after g, has completed its destruction since the
\* most recent construction by ScopedBool(bool&) on V (the caller not having
\* stored to V since then).
TrueUnlessDestroyedSinceLastCtor ==
    \A g \in Guard :
        Live(g) /\ ~since[guard[g].m_boolme].wrote =>
            (mem[guard[g].m_boolme] = TRUE <=> ~since[guard[g].m_boolme].dtor)

\* A live guard whose flag a later guard's destruction has cleared.
ClearedByLaterGuard ==
    \E g \in Guard :
        /\ Live(g) /\ GuardsOnly(g)
        /\ ~since[guard[g].m_boolme].wrote
        /\ guard[g].dtors # {}
        /\ \A h \in guard[g].dtors : h > g
        /\ mem[guard[g].m_boolme] = FALSE

\* C4: a guard cannot be duplicated: every guard object comes from
\* ScopedBool(bool&), and the destructors' stores of false never outnumber
\* the constructions.
NeverDuplicated ==
    /\ \A g \in Guard : Born(g) => guard[g].how = "ctor"
    /\ Cardinality({g \in Guard : Dead(g)})
          <= Cardinality({g \in Guard : guard[g].how = "ctor"})

\* C10: destruction does not restore what the boolean held before the guard:
\* a boolean that was already true when the guard was constructed is false
\* after the guard is destroyed; and the destruction changes no other boolean
\* and no other guard.
ClearsWithoutRestoring ==
    [][\A g \in Guard :
          Destroyed(g) =>
              /\ guard[g].prior = TRUE => mem'[guard[g].m_boolme] # guard[g].prior
              /\ \A b \in Addr \ {guard[g].m_boolme} : mem'[b] = mem[b]
              /\ \A h \in Guard \ {g} :
                    /\ guard'[h].st = guard[h].st
                    /\ guard'[h].m_boolme = guard[h].m_boolme]_vars

\* A guard constructed on a flag that was already true has been destroyed:
\* the flag is false, and the neighbouring boolean kept its true.
PriorTrueNowFalse ==
    \E g \in Guard :
        /\ Dead(g)
        /\ guard[g].prior = TRUE
        /\ guard[g].writers = {}
        /\ mem[guard[g].target] = FALSE
        /\ \E b \in Addr \ {guard[g].target} : mem[b] = TRUE

(***************************************************************************)
(*                 Properties of the enumeration operators                 *)
(***************************************************************************)
Members == decl.FIRST..(decl.COUNT - 1)

\* C5: EnumIsValid(k) is true exactly when FIRST <= k < COUNT; it is false
\* for k = COUNT, for every k < FIRST, and for every k when FIRST = COUNT.
EnumIsValidExactlyMembers ==
    /\ last.op = "EnumIsValid" => (valid <=> last.arg \in Members)
    /\ \A k \in Window : EnumIsValid(k) <=> k \in Members
    /\ ~EnumIsValid(decl.COUNT)
    /\ \A k \in Window : k < decl.FIRST => ~EnumIsValid(k)
    /\ decl.FIRST = decl.COUNT => \A k \in Window : ~EnumIsValid(k)

\* EnumIsValid was called on the sentinel of a non-empty enumeration.
SentinelRejected ==
    /\ last.op = "EnumIsValid"
    /\ last.arg = decl.COUNT
    /\ decl.FIRST < decl.COUNT
    /\ valid = FALSE

AllMembers == [i \in 1..(decl.COUNT - decl.FIRST) |-> decl.FIRST + i - 1]

\* C6: the loop from FIRST, stepping with operator++ until the variable
\* compares == pxEnumEnd, terminates having visited exactly the COUNT - FIRST
\* members, each once, in increasing order (none when FIRST = COUNT).
LoopVisitsEveryMember ==
    (pc = "loop") ~> (pc = "done" /\ visited = AllMembers)

\* A finished loop over an enumeration of at least two members.
LoopDone ==
    /\ pc = "done"
    /\ Len(visited) >= 2
    /\ visited = AllMembers

\* C9: operator++ on a valid member v leaves v + 1, which compares equal to
\* pxEnumEnd exactly when v was the last member and is a valid member
\* otherwise; the postfix form steps the variable the same way and returns v.
SuccessorIsEndOrValid ==
    (last.op \in {"++pre", "post++"} /\ EnumIsValid(last.arg)) =>
        /\ src = last.arg + 1
        /\ OpEqEnd(src) <=> last.arg = decl.COUNT - 1
        /\ OpEqEnd(src) \/ EnumIsValid(src)
        /\ last.op = "post++" => ret = last.arg
        /\ last.op = "++pre" => ret = src

\* Post-increment at the last member: the variable is at the sentinel.
PostIncrementAtLast ==
    /\ last.op = "post++"
    /\ EnumIsValid(last.arg)
    /\ last.arg = decl.COUNT - 1
    /\ OpEqEnd(src)
    /\ ret = last.arg

(***************************************************************************)
(*                  Properties of the translation unit                     *)
(***************************************************************************)
Preprocessed == line > 40

Intended(f) ==
    IF "PCSX2_DEBUG" \in flags THEN "try/catch"
    ELSE IF "PCSX2_DEVBUILD" \in flags /\ f = "DEVEL" THEN "try/catch"
    ELSE "straight-line"

\* C7: for every combination of PCSX2_DEBUG and PCSX2_DEVBUILD both alias
\* pairs are defined and resolve as intended: try/catch for both when debug
\* is set, try/catch for the DEVEL pair only when just devbuild is set, and
\* straight-line for both when neither is set.
AliasesResolveAsIntended ==
    Preprocessed => \A f \in {"DEBUG", "DEVEL"} : Resolve(f) = Intended(f)

Expected(n) ==
    CASE n = "_1kb" -> FromInt(1024)
      [] n = "_4kb" -> FromInt(4 * 1024)
      [] n = "_16kb" -> FromInt(16384)
      [] n = "_32kb" -> FromInt(32 * 1024)
      [] n = "_64kb" -> FromInt(64 * 1024)
      [] n = "_128kb" -> FromInt(128 * 1024)
      [] n = "_256kb" -> FromInt(256 * 1024)
      [] n = "_1mb" -> FromInt(1024 * 1024)
      [] n = "_8mb" -> FromInt(8 * 1024 * 1024)
      [] n = "_16mb" -> FromInt(16 * 1024 * 1024)
      [] n = "_32mb" -> FromInt(32 * 1024 * 1024)
      [] n = "_64mb" -> FromInt(64 * 1024 * 1024)
      [] n = "_256mb" -> FromInt(268435456)
      [] n = "_1gb" -> FromInt(1024 * 1024 * 1024)
      [] n = "_4gb" -> <<0, 0, 1, 0>>

Initialised(n) == consts[n] # Unset

\* C8: every size constant holds exactly its binary-power byte count, without
\* overflow in its declared width, on 32-bit and on 64-bit targets:
\* _Nkb = N*1024, _Nmb = N*1024*1024, _1gb = 1024*_1mb, and
\* _4gb = 4*1024*1024*1024 = _1gb+_1gb+_1gb+_1gb.
SizeConstantsExact ==
    /\ \A n \in SizeNames : Initialised(n) => consts[n] = Expected(n)
    /\ Initialised("_4gb") =>
          /\ consts["_4gb"] = MulSmall(MulSmall(MulSmall(FromInt(4), 1024), 1024), 1024)
          /\ consts["_4gb"] =
                Add(Add(Add(consts["_1gb"], consts["_1gb"]), consts["_1gb"]),
                    consts["_1gb"])

\* All constants initialised on a 32-bit target, _4gb holding 2^32.
AllInitialisedOn32Bit ==
    /\ line > 251
    /\ ptrBits = 32
    /\ consts["_4gb"] = <<0, 0, 1, 0>>
    /\ consts["_256kb"] = FromInt(262144)

====
